---- MODULE Spec2Model ----
(***************************************************************************)
(* Heat-jar firmware (rspg/arduino-jar).  The model follows the complete   *)
(* sketch src/unnamed/part_000; src/skech_jar.ino is a later revision of   *)
(* the same sketch whose protocol code (setCode, parseBT, waitBTResponse,  *)
(* rebootBT, display, run) is the same text.                               *)
(*                                                                         *)
(* Foreground: setup() then loop()/run() as a program counter `pc`.        *)
(* Interrupts: zeroCrossInterrupt and timerInterrupt interleave with it.   *)
(* Environment: the wireless peer, which puts bytes on the serial line.    *)
(*                                                                         *)
(* Bytes on the wire are one-character strings; a line is a tuple of them. *)
(* Temperatures are in 1/256 degree (the unit of status.temperature),      *)
(* Kp and Ti in 1/1000, sequencer time in whole seconds.                   *)
(***************************************************************************)
EXTENDS Integers, Sequences, FiniteSets, TLC

VARIABLES
    status,            \* volatile STATUS status
    commands,          \* COMMAND_DATA commands[COMMAND_DATA_MAX]
    Kp, Ti,            \* controller gains
    phaseDelayUs,
    currentTemperature, targetTemperature, temperatureErrorIntegral,
    heatControlMode,   \* HEAT_CTRL_MODE
    gate,              \* level of HEAT_CTRL_PIN
    now,               \* micros(), in microseconds
    lastTime,          \* zeroCrossInterrupt: static lastTime
    zeroCrossInterval, heatControlTime,
    voltages, averages, voltageIndex, averageIndex,  \* statics of measureTemperature
    previousCommand, operationTime,                  \* statics of processCommand
    line,              \* parseBT: static line[64], the first `index` bytes
    rx,                \* bytes the peer has put on the serial line, not yet read
    pc,                \* position of the foreground
    caller,            \* who called rebootBT: "setup" or "display"
    try,               \* loop variable i of sendWithRetry / rebootBT
    strbuf,            \* display: the 8 status bytes formatted so far (byte -> value)
    unread,            \* display: status bytes sprintf has still to read
    pub,               \* history of the publication in progress
    nSamples, nOther,  \* counters of readings taken and of frames sent
    hist               \* history: whether run() has frozen the control, the
                       \* time of the last zero-cross edge accepted, the slot
                       \* processCommand served last and, for a hold, the
                       \* seconds its calls have counted on that slot

vars == << status, commands, Kp, Ti, phaseDelayUs, currentTemperature,
           targetTemperature, temperatureErrorIntegral, heatControlMode, gate,
           voltages, averages, voltageIndex, averageIndex, previousCommand,
           operationTime, line, rx, pc, caller, try, strbuf, unread, pub,
           nSamples, nOther, now, lastTime, zeroCrossInterval, heatControlTime,
           hist >>

-----------------------------------------------------------------------------
(* Program constants *)

UNKNOWN_ERROR == -64
INVALID_COMMAND == -63
INVALID_ARGUMENT == -62
COMMAND_OVERFLOW == -61
TEMPERATURE_OVERLIMIT == -60
TEMPERATURE_FEEDBACK_FAILED == -59
BTDEVICE_ERROR == -58
STANDBY == 0
COOKING == 1

CMD_NOP == 0
CMD_FINISH == 1
CMD_TARGET_TEMPERATURE == 2
CMD_KEEP == 3
CMD_SET_KP == 4
CMD_SET_TI == 5
CMD_SET_PHASE_DELAY == 6

COMMAND_DATA_MAX == 32
LineMax == 64
ResponseMax == 8
RetryMax == 3
VoltageHistories == 5
AverageHistories == 10

(* Bounds of the exploration *)
MaxRxLines == 1     \* lines the peer may have in flight at once
MaxFrames == 2      \* command frames the peer sends when it sends any frame
MaxProbe == 1       \* frames sent besides the appended program
MaxSamples == 5     \* ADC readings taken
MaxHolds == 1       \* hold commands the peer sends
MaxOperationSeconds == 7201   \* seconds the sequencer stays in one slot
MaxWaitLines == 2   \* lines in flight while waitBTResponse is followed
MaxTicks == 260     \* periods of timer1 followed once the interrupts are attached

-----------------------------------------------------------------------------
(* Fixed-width integers *)

\* a value stored into a (signed) char
SChar(x) == ((x + 128) % 256) - 128

\* a value stored into an unsigned char
UChar(x) == x % 256

Min(a, b) == IF a < b THEN a ELSE b
Max(a, b) == IF a > b THEN a ELSE b
clamp(x, minv, maxv) == Min(Max(x, minv), maxv)

-----------------------------------------------------------------------------
(* Characters *)

LF == "\n"
CR == "\r"

HexDigits == << "0", "1", "2", "3", "4", "5", "6", "7",
                "8", "9", "a", "b", "c", "d", "e", "f" >>

\* value of a hexadecimal digit as strtol reads it, -1 for any other byte
HexVal(c) ==
    CASE c = "0" -> 0  [] c = "1" -> 1  [] c = "2" -> 2  [] c = "3" -> 3
      [] c = "4" -> 4  [] c = "5" -> 5  [] c = "6" -> 6  [] c = "7" -> 7
      [] c = "8" -> 8  [] c = "9" -> 9
      [] c \in {"a", "A"} -> 10  [] c \in {"b", "B"} -> 11
      [] c \in {"c", "C"} -> 12  [] c \in {"d", "D"} -> 13
      [] c \in {"e", "E"} -> 14  [] c \in {"f", "F"} -> 15
      [] OTHER -> -1

\* isprint(c): of the bytes the model uses, only the control bytes are not
isprint(c) == c \notin {LF, CR}

\* strtol(hexstr, nullptr, 16) of the two-byte string <<c1, c2>>: leading
\* white space is skipped, a sign is accepted, digits are read up to the
\* first byte that is no digit; no digit at all gives 0
strtol16(c1, c2) ==
    CASE c1 = " " -> Max(HexVal(c2), 0)
      [] c1 = "+" -> Max(HexVal(c2), 0)
      [] c1 = "-" -> 0 - Max(HexVal(c2), 0)
      [] HexVal(c1) >= 0 ->
            IF HexVal(c2) >= 0 THEN 16 * HexVal(c1) + HexVal(c2) ELSE HexVal(c1)
      [] OTHER -> 0

\* "%02x" of one byte
Hex02(b) == << HexDigits[(b \div 16) + 1], HexDigits[(b % 16) + 1] >>

RECURSIVE HexOf(_)
\* the bytes of a record in hexadecimal, two digits a byte
HexOf(bytes) ==
    IF bytes = << >> THEN << >> ELSE Hex02(Head(bytes)) \o HexOf(Tail(bytes))

\* the first n bytes of s (all of s when it is shorter)
Take(s, n) == SubSeq(s, 1, Min(n, Len(s)))
\* s without its first n bytes
Drop(s, n) == SubSeq(s, Min(n, Len(s)) + 1, Len(s))

\* strncmp(s, lit, Len(lit)) == 0
StartsWith(s, lit) == Take(s, Len(lit)) = lit

\* strchr(s, c) - s, or -1 when c does not occur
IndexOf(s, c) ==
    IF \E i \in 1..Len(s) : s[i] = c
    THEN (CHOOSE i \in 1..Len(s) : s[i] = c /\ \A j \in 1..(i - 1) : s[j] # c) - 1
    ELSE -1

-----------------------------------------------------------------------------
(* STATUS *)

\* STATUS::setCode with the guard left out
setCodeUnguarded(st, value) == [st EXCEPT !.code = value]

\* STATUS::setCode: the code is stored only while no error is latched
setCode(st, value) ==
    IF st.code >= 0 THEN [st EXCEPT !.code = value] ELSE st

\* STATUS::hasError
hasError(st) == st.code < 0

\* the 8 bytes of the status record as the publisher reads them through
\* reinterpret_cast<volatile unsigned char*>(&status): code, cmdid, cmdnum,
\* power, then temperature and remainTime low byte first
StatusBytes(st) ==
    << UChar(st.code), UChar(st.cmdid), UChar(st.cmdnum), UChar(st.power),
       st.temperature % 256, (st.temperature \div 256) % 256,
       st.remainTime % 256, st.remainTime \div 256 >>

-----------------------------------------------------------------------------
(* COMMAND_DATA: a record is its 8 bytes, <<cmd, index, params[0..5]>> *)

CmdOf(rec) == rec[1]
IndexByteOf(rec) == rec[2]
Param(rec, i) == rec[3 + i]
Bytes == 0..255
NopRecord == << 0, 0, 0, 0, 0, 0, 0, 0 >>

\* parseBT, the decoding loop: byte i of the record is strtol of the
\* characters 2i and 2i+1 of the payload, cast to char
DecodeCommand(p) ==
    [i \in 1..8 |-> UChar(strtol16(p[2 * i - 1], p[2 * i]))]

\* parseBT, slot addressing: the index the record is stored at; the
\* initial value 0 stays when the index byte is above 0x81
ResolveIndex(rec, st) ==
    IF IndexByteOf(rec) < 128 THEN IndexByteOf(rec)
    ELSE IF IndexByteOf(rec) = 128 THEN st.cmdnum
    ELSE IF IndexByteOf(rec) = 129 THEN st.cmdid
    ELSE 0

\* parseBT, the post-increment of status.cmdnum taken by an append
AfterResolve(rec, st) ==
    IF IndexByteOf(rec) = 128
    THEN [st EXCEPT !.cmdnum = SChar(st.cmdnum + 1)]
    ELSE st

\* parseBT: q != nullptr && (q - p) == 16
PayloadOk(p) == IndexOf(p, ".") # -1 /\ IndexOf(p, ".") = 16

\* the capacity test of parseBT off by one
SlotOverflowOffByOne(index) == index > COMMAND_DATA_MAX

\* parseBT: index >= COMMAND_DATA_MAX
SlotOverflow(index) == index >= COMMAND_DATA_MAX

\* the store of parseBT writing the neighbouring slot too
StoreCommandSpill(cmds, index, rec) ==
    [j \in DOMAIN cmds |-> IF j = index \/ j = index + 1 THEN rec ELSE cmds[j]]

\* parseBT: commands[index] = command (index within the array)
StoreCommand(cmds, index, rec) == [cmds EXCEPT ![index] = rec]

\* the overflow branch of parseBT storing into the last slot all the same
OverflowResultClamped(st, cmds, rec) ==
    [st |-> setCode(st, COMMAND_OVERFLOW),
     cmds |-> StoreCommand(cmds, COMMAND_DATA_MAX - 1, rec), wild |-> FALSE]

\* parseBT, index >= COMMAND_DATA_MAX: the error is latched, nothing is stored
OverflowResult(st, cmds, rec) ==
    [st |-> setCode(st, COMMAND_OVERFLOW), cmds |-> cmds, wild |-> FALSE]

\* parseBT, the body run for one complete line `l` (the text before '\n').
\* Gives the status, the program array, and whether the store went outside
\* the array (a negative index, from a cursor that wrapped).
ParseLine(l, st, cmds) ==
    IF StartsWith(l, << "W", "V", "," >>)
         /\ StartsWith(Drop(l, 3), << "0", "0", "1", "B", "," >>)
    THEN LET p == Drop(l, 8) IN
         IF ~PayloadOk(p)
         THEN [st |-> setCode(st, INVALID_ARGUMENT), cmds |-> cmds, wild |-> FALSE]
         ELSE LET command == DecodeCommand(p)
                  index == ResolveIndex(command, st)
                  st1 == AfterResolve(command, st)
              IN  IF SlotOverflow(index)
                  THEN OverflowResult(st1, cmds, command)
                  ELSE IF index < 0
                  THEN [st |-> st1, cmds |-> cmds, wild |-> TRUE]
                  ELSE [st |-> st1, cmds |-> StoreCommand(cmds, index, command),
                        wild |-> FALSE]
    ELSE [st |-> st, cmds |-> cmds, wild |-> FALSE]

\* parseBT, the buffering of the bytes before a '\n': a printable byte is
\* stored while index < 64, any other byte is dropped
BufferLine(l, bytes) == Take(l \o SelectSeq(bytes, isprint), LineMax)

RECURSIVE ParseBytes(_, _, _, _, _)
\* parseBT, the loop over the bytes read: the bytes up to a '\n' are
\* buffered, the '\n' ends the line, which is then parsed, and the buffer
\* starts again at index 0.  With 64 bytes buffered the terminator is
\* written to line[64], outside the array (wild).
ParseBytes(bytes, l, st, cmds, wild) ==
    LET k == IndexOf(bytes, LF) IN
    IF k = -1
    THEN [line |-> BufferLine(l, bytes), st |-> st, cmds |-> cmds, wild |-> wild]
    ELSE LET text == BufferLine(l, Take(bytes, k))
             r == ParseLine(text, st, cmds)
         IN  ParseBytes(Drop(bytes, k + 1), << >>, r.st, r.cmds,
                        wild \/ r.wild \/ Len(text) >= LineMax)

-----------------------------------------------------------------------------
(* Controller and sampler arithmetic *)

\* a float read from 4 parameter bytes (IEEE-754 single, low byte first), in
\* 1/1000, from the sign, the exponent and the top 7 bits of the fraction;
\* the result is kept within -10000..10000
FloatMilli(b0, b1, b2, b3) ==
    LET e == (b3 % 128) * 2 + (b2 \div 128)
        m == 128 + (b2 % 128)
        mag == IF e = 0 \/ e < 117 THEN 0
               ELSE IF e > 137 THEN 10000
               ELSE IF e >= 134 THEN Min(m * 1000 * (2 ^ (e - 134)), 10000)
               ELSE (m * 1000) \div (2 ^ (134 - e))
    IN  IF b3 >= 128 THEN 0 - mag ELSE mag

\* calcPowerRateFeedbacked without the clamp of l.265
calcPowerRateFeedbackedRaw ==
    LET e == targetTemperature - currentTemperature
        rate == Kp * (e + temperatureErrorIntegral)
    IN  IF currentTemperature < 40 * 256 THEN Min(rate, 128000) ELSE rate

\* calcPowerRateFeedbacked, in 1/256000: Kp*(e + integral) clamped to [0, 1],
\* and to at most 0.5 below 40 degrees
calcPowerRateFeedbacked ==
    LET e == targetTemperature - currentTemperature
        rate == clamp(Kp * (e + temperatureErrorIntegral), 0, 256000)
    IN  IF currentTemperature < 40 * 256 THEN Min(rate, 128000) ELSE rate

\* (char)clamp(rate*100.f, 0.f, 100.f)
PowerOf(rate) == clamp((rate * 100) \div 256000, 0, 100)

\* Single-precision values are written m * 2^e with the significand m an
\* integer below 2^24: [m |-> m, e |-> e].  The arithmetic below is the
\* IEEE-754 arithmetic of avr-gcc's float (round to nearest, ties to even),
\* carried out in pieces of 12 bits.

\* the number of bits of n
RECURSIVE BitLen(_)
BitLen(n) == IF n = 0 THEN 0 ELSE 1 + BitLen(n \div 2)

\* q, the quotient cut off, rounded by the remainder left over den
RoundNearestEven(q, twiceRem, den) ==
    IF twiceRem > den \/ (twiceRem = den /\ q % 2 = 1) THEN q + 1 ELSE q

\* the float product of a significand m and an unsigned long t < 2^24
FloatMul(m, t) ==
    LET a1 == m \div 4096
        a0 == m % 4096
        t1 == t \div 4096
        t0 == t % 4096
        mid == a1 * t0 + a0 * t1
        lows == a0 * t0 + (mid % 4096) * 4096
        lo == lows % (2 ^ 24)
        hi == a1 * t1 + (mid \div 4096) + (lows \div (2 ^ 24))
        k == BitLen(hi)
        q == hi * (2 ^ (24 - k)) + (lo \div (2 ^ k))
    IN  [m |-> RoundNearestEven(q, 2 * (lo % (2 ^ k)), 2 ^ k), e |-> k]

\* n more bits of the quotient q with remainder r of a division by den
RECURSIVE LongDiv(_, _, _, _)
LongDiv(q, r, den, n) ==
    IF n = 0 THEN << q, r >>
    ELSE IF 2 * r >= den THEN LongDiv(2 * q + 1, 2 * r - den, den, n - 1)
    ELSE LongDiv(2 * q, 2 * r, den, n - 1)

\* the float quotient of x by a significand den, 2^23 <= x.m, den
FloatDiv(x, den) ==
    LET j == IF x.m >= den THEN 23 ELSE 24
        d == LongDiv(x.m \div den, x.m % den, den, j)
    IN  [m |-> RoundNearestEven(d[1], 2 * d[2], den), e |-> x.e - j]

\* (unsigned long) of a float
Truncate(x) == IF x.e >= 0 THEN x.m * (2 ^ x.e) ELSE x.m \div (2 ^ (0 - x.e))

\* (float)PI = 13176795 * 2^-22
PiSignificand == 13176795

\* acosf(1.f - 2.f*powerRate) for powerRate = k/8, correctly rounded
AcosF ==
    [k \in 0..8 |->
        CASE k = 0 -> [m |-> 0, e |-> 0]
          [] k = 1 -> [m |-> 12125469, e |-> -24]
          [] k = 2 -> [m |-> 8784530, e |-> -23]
          [] k = 3 -> [m |-> 11057159, e |-> -23]
          [] k = 4 -> [m |-> PiSignificand, e |-> -23]
          [] k = 5 -> [m |-> 15296430, e |-> -23]
          [] k = 6 -> [m |-> 8784530, e |-> -22]
          [] k = 7 -> [m |-> 10145427, e |-> -22]
          [] k = 8 -> [m |-> PiSignificand, e |-> -22]]

\* the rates the table of acosf covers, in 1/256000
RateGrid == { 32000 * k : k \in 0..8 }

\* calcHeatPowerDownDuration for a half-cycle of `interval` us:
\* (unsigned long)(acosf(1.f - 2.f*powerRate)*zeroCrossInterval/(float)PI)
HeatPowerDownDuration(powerRate, interval) ==
    LET a == AcosF[clamp(powerRate, 0, 256000) \div 32000]
        p == FloatMul(a.m, interval)
        d == FloatDiv(p, PiSignificand)
    IN  IF a.m = 0 \/ interval = 0 THEN 0
        ELSE Truncate([m |-> d.m, e |-> d.e + a.e + 22])

\* calcHeatPowerDownDuration
calcHeatPowerDownDuration(powerRate) ==
    HeatPowerDownDuration(powerRate, zeroCrossInterval)

\* the thermistor equation of measureTemperature for the mean readings the
\* model produces (multiples of 50), in 1/256 degree, truncated
TempOf(vInt) ==
    CASE vInt = 50 -> 167      [] vInt = 100 -> 4981   [] vInt = 150 -> 8155
      [] vInt = 200 -> 10606   [] vInt = 250 -> 12640  [] vInt = 300 -> 14402
      [] vInt = 350 -> 15971   [] vInt = 400 -> 17396  [] vInt = 450 -> 18709
      [] vInt = 500 -> 19934   [] vInt = 1000 -> 29607
      [] OTHER -> 0 - 69888

RECURSIVE Sum(_)
Sum(s) == IF s = << >> THEN 0 ELSE Head(s) + Sum(Tail(s))

\* sort(a, n): the sequence in non-decreasing order
sort(a) ==
    CHOOSE b \in [DOMAIN a -> {a[i] : i \in DOMAIN a}] :
        /\ \A i \in DOMAIN a : Cardinality({j \in DOMAIN a : b[j] = a[i]})
                                = Cardinality({j \in DOMAIN a : a[j] = a[i]})
        /\ \A i \in 1..(Len(a) - 1) : b[i] <= b[i + 1]

\* the leaky integrator of measureTemperature, Ti in 1/1000
NextIntegral(integral, target, current) ==
    integral + (((target - current) - integral) * Ti) \div 1000

-----------------------------------------------------------------------------
(* Lines the peer sends *)

Line(text) == Append(text, LF)

CommandPrefix == << "W", "V", ",", "0", "0", "1", "B", "," >>
StatusPrefix == << "S", "H", "W", ",", "0", "0", "1", "D", "," >>

\* the frame 'WV,001B,<16 hex>.' that carries record rec, without the '\n'
Frame(rec) == CommandPrefix \o HexOf(rec) \o << "." >>

\* SET_KP 1.0, TARGET_TEMPERATURE 8, FINISH, with index byte ix
KpRecord(ix) == << CMD_SET_KP, ix, 0, 0, 128, 63, 0, 0 >>
TargetRecord(ix) == << CMD_TARGET_TEMPERATURE, ix, 8, 32, 0, 0, 0, 0 >>
FinishRecord(ix) == << CMD_FINISH, ix, 0, 0, 0, 0, 0, 0 >>

\* KEEP for `minutes` minutes, with index byte ix
KeepRecord(ix, minutes) ==
    << CMD_KEEP, ix, minutes % 256, minutes \div 256, 0, 0, 0, 0 >>

\* TARGET_TEMPERATURE of `degrees`, with index byte ix
TargetRecordOf(ix, degrees) ==
    << CMD_TARGET_TEMPERATURE, ix, degrees, 0, 0, 0, 0, 0 >>

\* SET_PHASE_DELAY of `us` microseconds, with index byte ix
PhaseDelayRecord(ix, us) ==
    << CMD_SET_PHASE_DELAY, ix, us % 256, us \div 256, 0, 0, 0, 0 >>

\* a record whose opcode is none of the COMMAND enumeration (the first
\* value after CMD_SET_PHASE_DELAY), with index byte ix
UnknownRecord(ix) == << CMD_SET_PHASE_DELAY + 1, ix, 0, 0, 0, 0, 0, 0 >>

\* the programs the sequencer is followed through, as appended by the peer
Programs ==
    { << KeepRecord(128, 1), KeepRecord(128, 1) >>,
      << KeepRecord(128, 2), KeepRecord(128, 1) >>,
      << KpRecord(128), KeepRecord(128, 1) >>,
      << TargetRecordOf(128, 32), KeepRecord(128, 1) >>,
      << TargetRecordOf(128, 32), TargetRecordOf(128, 32) >>,
      << KpRecord(128), FinishRecord(128) >>,
      << PhaseDelayRecord(128, 1500), KpRecord(128) >> }

\* the lengths of the holds the peer asks for, in minutes
HoldMinutes == { 1, 120, 40000 }

\* the append frame the peer uploads a program with
AppendFrame == Frame(KpRecord(128))

\* the records of the other well-formed frames the peer sends
OtherRecords ==
    { TargetRecord(0), FinishRecord(128), KpRecord(31), KpRecord(32),
      KpRecord(127), KpRecord(129), KpRecord(255), UnknownRecord(128) }

\* frames whose payload is not 16 hexadecimal characters and a '.'
Hex15Frame == CommandPrefix \o Take(HexOf(KpRecord(0)), 15) \o << "." >>
Hex17Frame == CommandPrefix \o HexOf(KpRecord(0)) \o << "0", "." >>
NoDotFrame == CommandPrefix \o HexOf(KpRecord(0))
NonHexFrame == CommandPrefix \o << "0", "4", "0", "0", "z", "z" >>
                   \o Drop(HexOf(KpRecord(0)), 6) \o << "." >>
MalformedFrames == { Hex15Frame, Hex17Frame, NoDotFrame, NonHexFrame }

OtherFrames == { Frame(r) : r \in OtherRecords } \cup MalformedFrames

AOK == << "A", "O", "K" >>
ERR == << "E", "R", "R" >>
CMD == << "C", "M", "D" >>
Replies == { AOK, ERR, CMD }

\* complete lines in flight
LinesIn(s) == Cardinality({ i \in 1..Len(s) : s[i] = LF })

\* frames sent to a program that fills the array
ProbeFrames == { Frame(KpRecord(129)), Frame(KpRecord(32)), Frame(KpRecord(127)) }

\* how many of the bytes in flight have arrived when the foreground reads
Cuts(s) == { 0, Len(s) }

-----------------------------------------------------------------------------
(* waitBTResponse *)

\* waitBTResponse, the buffering of the bytes before a '\n': a printable
\* byte is stored at `index`, which returns to 0 when it reaches 8, so the
\* text compared is what was stored since `index` was last 0
BufferResponse(bytes) ==
    LET p == SelectSeq(bytes, isprint)
    IN  SubSeq(p, Len(p) - (Len(p) % ResponseMax) + 1, Len(p))

\* waitBTResponse, the three strncmp of a line: its reply, "" for none
ReplyOf(response) ==
    IF StartsWith(response, AOK) THEN "AOK"
    ELSE IF StartsWith(response, ERR) THEN "ERR"
    ELSE IF StartsWith(response, CMD) THEN "CMD"
    ELSE ""

RECURSIVE ScanResponse(_, _)
\* waitBTResponse over the bytes that arrive before the timeout: the reply
\* of the first line that begins AOK, ERR or CMD and the number of bytes
\* read up to it, or TIMEOUT with every byte read
ScanResponse(bytes, used) ==
    LET k == IndexOf(bytes, LF) IN
    IF k = -1 THEN [reply |-> "TIMEOUT", used |-> used + Len(bytes)]
    ELSE LET reply == ReplyOf(BufferResponse(Take(bytes, k))) IN
         IF reply # "" THEN [reply |-> reply, used |-> used + k + 1]
         ELSE ScanResponse(Drop(bytes, k + 1), used + k + 1)

\* waitBTResponse(1000) when n of the bytes in flight arrive in time
waitBTResponse(n) == ScanResponse(Take(rx, n), 0)

-----------------------------------------------------------------------------
(* Initial state: the globals as constructed, at the call of rebootBT in setup *)

NoPub == [phase |-> "idle", snaps |-> {}, sent |-> 0, frames |-> {},
          aok |-> FALSE, reboot |-> FALSE,
          rsent |-> 0, rcmd |-> FALSE, rcode |-> STANDBY, rdone |-> FALSE]

\* micros() when setup() attaches the interrupts (rebootBT alone waits for
\* the module's answer before)
StartMicros == 1000000

\* nothing frozen, no edge accepted, no slot served; the clock is followed
\* from micros() = start
NoHist == [frozen |-> FALSE, edge |-> -1, slot |-> -1, held |-> 0,
           start |-> StartMicros]

Init ==
    /\ status = [code |-> STANDBY, cmdid |-> 0, cmdnum |-> 0, power |-> 0,
                 temperature |-> 0, remainTime |-> 0]
    /\ commands = [i \in 0..(COMMAND_DATA_MAX - 1) |-> NopRecord]
    /\ Kp = 1000
    /\ Ti = 10
    /\ phaseDelayUs = 1200
    /\ currentTemperature = 0
    /\ targetTemperature = 0
    /\ temperatureErrorIntegral = 0
    /\ heatControlMode = "IDLE"
    /\ gate = "LOW"
    /\ voltages = [i \in 1..VoltageHistories |-> 0]
    /\ averages = [i \in 1..AverageHistories |-> 0]
    /\ voltageIndex = 0
    /\ averageIndex = 0
    /\ previousCommand = CMD_NOP
    /\ operationTime = 0
    /\ line = << >>
    /\ rx = << >>
    /\ pc = "rsend"
    /\ caller = "setup"
    /\ try = 0
    /\ strbuf = [k \in 0..7 |-> 0]
    /\ unread = {}
    /\ pub = NoPub
    /\ nSamples = 0
    /\ nOther = 0
    /\ now = 0
    /\ lastTime = 0
    /\ zeroCrossInterval = 0
    /\ heatControlTime = 0
    /\ hist = NoHist

controlVars == << Kp, Ti, phaseDelayUs, currentTemperature, targetTemperature,
                  temperatureErrorIntegral >>
clockVars == << now, lastTime, zeroCrossInterval, heatControlTime >>
isrVars == << heatControlMode, gate, clockVars >>
samplerVars == << voltages, averages, voltageIndex, averageIndex, nSamples >>
sequencerVars == << previousCommand, operationTime >>
displayVars == << strbuf, unread, try, caller >>

-----------------------------------------------------------------------------
(* Sequencer *)

U16(lo, hi) == lo + 256 * hi

\* v | 0x8000 on an unsigned short
OrBit15(v) == IF (v \div 32768) % 2 = 1 THEN v ELSE v + 32768

\* seconds between two calls of processCommand
DeltaSeconds == { 0, 1, 2 }

\* processCommand, CMD_KEEP: remain = max(waitSeconds - operationTime, 0.0f)
RemainOf(waitSeconds, t) == Max(waitSeconds - t, 0)

\* the encoding of the remaining time with the minutes rounded down
ShownRemainFloor(remain) ==
    IF remain < 3600 THEN remain ELSE OrBit15(remain \div 60)

\* processCommand, CMD_KEEP: status.remainTime is ceilf(remain) below 3600 s
\* and ceilf(remain / 60.f) | 0x8000 from 3600 s on
ShownRemain(remain) ==
    IF remain < 3600 THEN remain ELSE OrBit15((remain + 59) \div 60)

\* processCommand, CMD_TARGET_TEMPERATURE: the dwell is over at first touch
DwellDoneAtFirstTouch(t) == t >= 0

\* processCommand, CMD_TARGET_TEMPERATURE: if(operationTime > 120.f)
DwellDone(t) == t > 120

\* processCommand, CMD_TARGET_TEMPERATURE:
\* fabs(currentTemperature - targetTemperature) <= 0.5f, in 1/256 degree
InBand(current, target) ==
    current - target <= 128 /\ target - current <= 128

\* ++status.cmdid
Advance(st) == [st EXCEPT !.cmdid = SChar(st.cmdid + 1)]

\* reset() leaving the record of slot 0 as it is
resetKeepsSlot0(seq) ==
    [seq EXCEPT !.st = [seq.st EXCEPT !.cmdid = 0, !.cmdnum = 0],
                !.target = 0,
                !.integral = 0]

\* reset(): the cursors, the opcode of slot 0 and the setpoints
reset(seq) ==
    [seq EXCEPT !.st = [seq.st EXCEPT !.cmdid = 0, !.cmdnum = 0],
                !.cmds = [seq.cmds EXCEPT ![0] = [seq.cmds[0] EXCEPT ![1] = CMD_NOP]],
                !.target = 0,
                !.integral = 0]

\* processCommand with a default case that latches INVALID_COMMAND
UnknownOpcodeRejected(seq) ==
    [seq EXCEPT !.st = setCode(seq.st, INVALID_COMMAND)]

\* processCommand, an opcode with no case in the switch: nothing is done
UnknownOpcode(seq) == seq

\* processCommand, the switch on data.cmd, for the record `data` read at the
\* cursor and `delta` seconds since the previous call
Sequencer(data, delta) ==
    LET cmd == CmdOf(data)
        changed == previousCommand # cmd
        seq == [st |-> status, cmds |-> commands, target |-> targetTemperature,
                integral |-> temperatureErrorIntegral, Kp |-> Kp, Ti |-> Ti,
                phase |-> phaseDelayUs, time |-> operationTime]
    IN  CASE cmd = CMD_FINISH -> reset(seq)
          [] cmd = CMD_TARGET_TEMPERATURE ->
               LET temp == Param(data, 0) * 256
                   fresh == changed \/ targetTemperature # temp
                   t0 == IF fresh THEN 0 ELSE operationTime
                   t1 == IF InBand(currentTemperature, temp) THEN t0 + delta
                         ELSE 0
               IN  [seq EXCEPT !.target = temp, !.time = t1,
                               !.st = IF DwellDone(t1) THEN Advance(status)
                                      ELSE status]
          [] cmd = CMD_KEEP ->
               LET waitSeconds == U16(Param(data, 0), Param(data, 1)) * 60
                   t1 == (IF changed THEN 0 ELSE operationTime) + delta
                   remain == RemainOf(waitSeconds, t1)
                   st1 == [status EXCEPT !.remainTime = ShownRemain(remain)]
               IN  [seq EXCEPT !.time = t1,
                               !.st = IF t1 >= waitSeconds THEN Advance(st1) ELSE st1]
          [] cmd = CMD_SET_KP ->
               [seq EXCEPT !.Kp = FloatMilli(Param(data, 0), Param(data, 1),
                                             Param(data, 2), Param(data, 3)),
                           !.st = Advance(status)]
          [] cmd = CMD_SET_TI ->
               [seq EXCEPT !.Ti = FloatMilli(Param(data, 0), Param(data, 1),
                                             Param(data, 2), Param(data, 3)),
                           !.st = Advance(status)]
          [] cmd = CMD_SET_PHASE_DELAY ->
               [seq EXCEPT !.phase = U16(Param(data, 0), Param(data, 1))]
          [] OTHER -> UnknownOpcode(seq)

\* processCommand: one call, the cursor within the array
ProcessCommand ==
    /\ pc = "process"
    /\ status.cmdid \in DOMAIN commands
    /\ \E delta \in DeltaSeconds :
          LET seq == Sequencer(commands[status.cmdid], delta) IN
          /\ status' = seq.st
          /\ commands' = seq.cmds
          /\ targetTemperature' = seq.target
          /\ temperatureErrorIntegral' = seq.integral
          /\ Kp' = seq.Kp
          /\ Ti' = seq.Ti
          /\ phaseDelayUs' = seq.phase
          /\ operationTime' = seq.time
          /\ previousCommand' = SChar(CmdOf(seq.cmds[status.cmdid]))
          /\ seq.time <= MaxOperationSeconds
          /\ hist' = [hist EXCEPT
                         !.slot = status.cmdid,
                         !.held = IF CmdOf(commands[status.cmdid]) # CMD_KEEP
                                  THEN 0
                                  ELSE IF hist.slot = status.cmdid
                                  THEN hist.held + delta
                                  ELSE delta]
    /\ pc' = "display"
    /\ UNCHANGED << currentTemperature, isrVars, samplerVars, line, rx,
                    displayVars, pub, nOther >>

\* processCommand: one call, the cursor outside the array.  The read of
\* commands[status.cmdid] is outside the object: the behaviour is undefined
\* and the model follows the program no further (pc "ub").
ProcessCommandOutside ==
    /\ pc = "process"
    /\ status.cmdid \notin DOMAIN commands
    /\ pc' = "ub"
    /\ UNCHANGED << status, commands, controlVars, isrVars, samplerVars,
                    sequencerVars, line, rx, displayVars, pub, nOther, hist >>

-----------------------------------------------------------------------------
(* Sampler *)

\* readings of the thermistor input
AdcValues == { 500 }

\* measureTemperature when the measuring interval has not passed
MeasureNotDue ==
    /\ pc = "run"
    /\ ~hasError(status)
    /\ pc' = "parse"
    /\ UNCHANGED << status, commands, controlVars, isrVars, samplerVars,
                    sequencerVars, line, rx, displayVars, pub, nOther, hist >>

\* measureTemperature when the measuring interval has passed: one reading is
\* stored; the fifth gives a median, the mean of the 10 stored medians gives
\* the temperature, the error integral and status.temperature
Measure(readings) ==
    /\ pc = "run"
    /\ ~hasError(status)
    /\ nSamples < MaxSamples
    /\ \E v \in readings :
         LET vs == [voltages EXCEPT ![voltageIndex + 1] = v] IN
         IF voltageIndex + 1 >= VoltageHistories
         THEN LET sorted == sort(vs)
                  avs == [averages EXCEPT ![averageIndex + 1] =
                                              sorted[(VoltageHistories \div 2) + 1]]
                  vInt == Sum(avs) \div AverageHistories
                  temp == TempOf(vInt)
              IN  /\ voltages' = sorted
                  /\ voltageIndex' = 0
                  /\ averages' = avs
                  /\ averageIndex' = (averageIndex + 1) % AverageHistories
                  /\ currentTemperature' = temp
                  /\ temperatureErrorIntegral' =
                        NextIntegral(temperatureErrorIntegral, targetTemperature, temp)
                  /\ status' = [status EXCEPT !.temperature = temp]
         ELSE /\ voltages' = vs
              /\ voltageIndex' = voltageIndex + 1
              /\ UNCHANGED << averages, averageIndex, currentTemperature,
                              temperatureErrorIntegral, status >>
    /\ nSamples' = nSamples + 1
    /\ pc' = "parse"
    /\ UNCHANGED << commands, Kp, Ti, phaseDelayUs, targetTemperature, isrVars,
                    sequencerVars, line, rx, displayVars, pub, nOther, hist >>

\* measureTemperature with the thermistor cold
MeasureTemperature == Measure(AdcValues)

\* readings of the thermistor input near 32 degrees, and a step up
DwellAdcValues == { 150, 650 }

\* measureTemperature with the thermistor near 32 degrees
MeasureDwell == Measure(DwellAdcValues)

-----------------------------------------------------------------------------
(* run(), parseBT() *)

\* run() with an error latched leaving the target temperature as it is
RunErrorKeepsTarget ==
    /\ pc = "run"
    /\ hasError(status)
    /\ currentTemperature' = 0
    /\ temperatureErrorIntegral' = 0
    /\ pc' = "display"
    /\ hist' = [hist EXCEPT !.frozen = TRUE]
    /\ UNCHANGED << status, commands, Kp, Ti, phaseDelayUs, targetTemperature,
                    isrVars, samplerVars, sequencerVars, line, rx, displayVars,
                    pub, nOther >>

\* run() with an error latched: the setpoints are zeroed; the sampler, the
\* parser and the sequencer are skipped
RunError ==
    /\ pc = "run"
    /\ hasError(status)
    /\ currentTemperature' = 0
    /\ targetTemperature' = 0
    /\ temperatureErrorIntegral' = 0
    /\ pc' = "display"
    /\ hist' = [hist EXCEPT !.frozen = TRUE]
    /\ UNCHANGED << status, commands, Kp, Ti, phaseDelayUs, isrVars, samplerVars,
                    sequencerVars, line, rx, displayVars, pub, nOther >>

\* parseBT(): the bytes that have arrived are read and parsed.  A store
\* through a negative index leaves the array; the model follows the program
\* no further (pc "ub").
ParseBT ==
    /\ pc = "parse"
    /\ \E n \in Cuts(rx) :
         LET r == ParseBytes(Take(rx, n), line, status, commands, FALSE) IN
         /\ line' = r.line
         /\ status' = r.st
         /\ commands' = r.cmds
         /\ rx' = Drop(rx, n)
         /\ pc' = IF r.wild THEN "ub" ELSE "process"
    /\ UNCHANGED << controlVars, isrVars, samplerVars, sequencerVars,
                    displayVars, pub, nOther, hist >>

-----------------------------------------------------------------------------
(* display(), sendWithRetry, rebootBT() *)

\* the text of a status frame for the 8 bytes b (a function on 0..7)
StatusFrame(b) == StatusPrefix \o HexOf([i \in 1..8 |-> b[i - 1]]) \o << LF >>

\* display() when less than the publication interval has passed, then the
\* delay(1) of run()
DisplayNotDue ==
    /\ pc = "display"
    /\ pc' = "idle"
    /\ UNCHANGED << status, commands, controlVars, isrVars, samplerVars,
                    sequencerVars, line, rx, displayVars, pub, nOther, hist >>

\* display() when a publication is due: sprintf starts to read the status
DisplayDue ==
    /\ pc = "display"
    /\ pc' = "fmt"
    /\ unread' = 0..7
    /\ strbuf' = [k \in 0..7 |-> 0]
    /\ pub' = [NoPub EXCEPT !.phase = "fmt", !.snaps = { status }]
    /\ UNCHANGED << status, commands, controlVars, isrVars, samplerVars,
                    sequencerVars, line, rx, try, caller, nOther, hist >>

\* one argument of the sprintf of display(): byte k of the status is read.
\* The order of evaluation of the arguments is the compiler's: from either
\* end.
FormatByte ==
    /\ pc = "fmt"
    /\ \E k \in { j \in unread : (\A i \in unread : j <= i) \/ (\A i \in unread : j >= i) } :
         /\ strbuf' = [strbuf EXCEPT ![k] = StatusBytes(status)[k + 1]]
         /\ unread' = unread \ { k }
         /\ pc' = IF unread = { k } THEN "send" ELSE "fmt"
    /\ try' = 0
    /\ pub' = [pub EXCEPT !.phase = IF pc' = "send" THEN "sending" ELSE "fmt"]
    /\ UNCHANGED << status, commands, controlVars, isrVars, samplerVars,
                    sequencerVars, line, rx, caller, nOther, hist >>

\* the sprintf of display() when no interrupt is taken during it
Format ==
    /\ pc = "fmt"
    /\ unread = 0..7
    /\ strbuf' = [k \in 0..7 |-> StatusBytes(status)[k + 1]]
    /\ unread' = {}
    /\ pc' = "send"
    /\ try' = 0
    /\ pub' = [pub EXCEPT !.phase = "sending"]
    /\ UNCHANGED << status, commands, controlVars, isrVars, samplerVars,
                    sequencerVars, line, rx, caller, nOther, hist >>

\* sendWithRetry: serialBT.write(strbuf)
Send ==
    /\ pc = "send"
    /\ pc' = "wait"
    /\ pub' = [pub EXCEPT !.sent = @ + 1, !.frames = @ \cup { StatusFrame(strbuf) }]
    /\ UNCHANGED << status, commands, controlVars, isrVars, samplerVars,
                    sequencerVars, line, rx, displayVars, nOther, hist >>

\* sendWithRetry giving up after one attempt more than it should
sendWithRetryNextExtra(reply, i) ==
    IF reply = "AOK" THEN "done"
    ELSE IF i + 1 < RetryMax + 1 THEN "send" ELSE "reboot"

\* sendWithRetry after waitBTResponse in attempt i: return true on AOK,
\* the next attempt while i + 1 < 3, else return false (rebootBT follows)
sendWithRetryNext(reply, i) ==
    IF reply = "AOK" THEN "done"
    ELSE IF i + 1 < RetryMax THEN "send" ELSE "reboot"

\* sendWithRetry: waitBTResponse(1000) and what follows it
Wait ==
    /\ pc = "wait"
    /\ \E n \in Cuts(rx) :
         LET r == waitBTResponse(n)
             next == sendWithRetryNext(r.reply, try)
         IN  /\ rx' = Drop(rx, r.used)
             /\ pc' = CASE next = "done" -> "idle"
                        [] next = "send" -> "send"
                        [] next = "reboot" -> "rsend"
             /\ try' = IF next = "send" THEN try + 1 ELSE 0
             /\ caller' = IF next = "reboot" THEN "display" ELSE caller
             /\ pub' = [pub EXCEPT !.aok = (r.reply = "AOK"),
                                   !.reboot = (next = "reboot"),
                                   !.phase = IF next = "send" THEN "sending" ELSE "done",
                                   !.rcode = status.code]
    /\ UNCHANGED << status, commands, controlVars, isrVars, samplerVars,
                    sequencerVars, line, strbuf, unread, nOther, hist >>

\* rebootBT: serialBT.write("R,1\n") and the delay after it
RebootSend ==
    /\ pc = "rsend"
    /\ pc' = "rwait"
    /\ pub' = [pub EXCEPT !.rsent = @ + 1]
    /\ UNCHANGED << status, commands, controlVars, isrVars, samplerVars,
                    sequencerVars, line, rx, displayVars, nOther, hist >>

\* rebootBT latching the error at the first failed attempt
rebootNextHasty(reply, i) ==
    IF reply = "CMD" THEN "return" ELSE "fail"

\* rebootBT after waitBTResponse in attempt i: return on CMD, the next
\* attempt while i + 1 < 3, else setCode(BTDEVICE_ERROR)
rebootNext(reply, i) ==
    IF reply = "CMD" THEN "return"
    ELSE IF i + 1 < RetryMax THEN "again" ELSE "fail"

\* rebootBT: waitBTResponse(1000) and what follows it
RebootWait ==
    /\ pc = "rwait"
    /\ \E n \in Cuts(rx) :
         LET r == waitBTResponse(n)
             next == rebootNext(r.reply, try)
         IN  /\ rx' = Drop(rx, r.used)
             /\ pc' = IF next = "again" THEN "rsend" ELSE "idle"
             /\ try' = IF next = "again" THEN try + 1 ELSE 0
             /\ status' = IF next = "fail" THEN setCode(status, BTDEVICE_ERROR)
                          ELSE status
             /\ pub' = [pub EXCEPT !.rcmd = (r.reply = "CMD"),
                                   !.rdone = (next # "again")]
    /\ UNCHANGED << commands, controlVars, isrVars, samplerVars, sequencerVars,
                    line, strbuf, unread, caller, nOther, hist >>

\* the end of setup(), or the delay(1) that ends run(): loop() calls run()
Idle ==
    /\ pc = "idle"
    /\ pc' = "run"
    /\ pub' = NoPub
    /\ caller' = "display"
    /\ strbuf' = [k \in 0..7 |-> 0]
    /\ unread' = {}
    /\ UNCHANGED << status, commands, controlVars, isrVars, samplerVars,
                    sequencerVars, line, rx, try, nOther, hist >>

-----------------------------------------------------------------------------
(* Interrupts *)

\* interrupts are attached at the end of setup()
Attached == ~(caller = "setup" /\ pc \in { "rsend", "rwait" })

\* zeroCrossInterrupt for an edge at least 5000 us after the previous one:
\* a gate pulse is armed.  Here and in TimerInterrupt the clock is left out:
\* the edge is one the debounce accepts, the tick is one after the
\* deadline.  ZeroCrossEdge and Tick are the same handlers with the clock.
ZeroCrossInterrupt ==
    /\ Attached
    /\ heatControlMode' = "UP"
    /\ UNCHANGED << status, commands, controlVars, gate, clockVars, samplerVars,
                    sequencerVars, line, rx, pc, displayVars, pub, nOther, hist >>

\* the store of timerInterrupt reaching the two bytes after status.power too
TimerStatusWriteWide(st, rate) ==
    [st EXCEPT !.power = PowerOf(rate), !.temperature = PowerOf(rate)]

\* timerInterrupt, case UP: status.power = (char)clamp(rate*100.f, 0.f, 100.f)
TimerStatusWrite(st, rate) == [st EXCEPT !.power = PowerOf(rate)]

\* timerInterrupt at a tick after heatControlTime: in DOWN the gate goes LOW
\* and the mode IDLE; in UP the gate goes HIGH, the power is published and
\* the mode becomes DOWN
TimerInterrupt ==
    /\ Attached
    /\ heatControlMode # "IDLE"
    /\ IF heatControlMode = "DOWN"
       THEN /\ gate' = "LOW"
            /\ heatControlMode' = "IDLE"
            /\ UNCHANGED << status, pub >>
       ELSE /\ gate' = "HIGH"
            /\ status' = TimerStatusWrite(status, calcPowerRateFeedbacked)
            /\ heatControlMode' = "DOWN"
            /\ pub' = IF pc = "fmt"
                      THEN [pub EXCEPT !.snaps = @ \cup { status' }]
                      ELSE pub
    /\ UNCHANGED << commands, controlVars, clockVars, samplerVars,
                    sequencerVars, line, rx, pc, displayVars, nOther, hist >>

\* the period of timer1, us
TimerPeriod == 100

\* the times between one edge on the zero-cross pin and the next: a half
\* cycle of a 50 Hz supply, a noise pulse 1900 us after an edge, and the
\* rest of the half cycle after such a pulse
EdgeGaps == { 1900, 8100, 10000 }

\* zeroCrossInterrupt: if(d < 5000) return, with the test always false
BounceNever(d) == FALSE

\* zeroCrossInterrupt: if(d < 5000) return
Bounce(d) == d < 5000

\* zeroCrossInterrupt at micros() = now.  The edge comes one of EdgeGaps
\* after the edge before it (the first one, after the interrupt is
\* attached).
ZeroCrossEdge ==
    /\ Attached
    /\ now - (IF lastTime = 0 THEN hist.start ELSE lastTime) \in EdgeGaps
    /\ LET d == now - lastTime
       IN  /\ lastTime' = now
           /\ IF Bounce(d)
              THEN UNCHANGED << zeroCrossInterval, heatControlMode,
                                heatControlTime, hist >>
              ELSE /\ zeroCrossInterval' = d
                   /\ heatControlMode' = "UP"
                   /\ heatControlTime' = now + (d \div 2) - 1200
                   /\ hist' = [hist EXCEPT !.edge = now]
    /\ UNCHANGED << status, commands, controlVars, gate, now, samplerVars,
                    sequencerVars, line, rx, pc, displayVars, pub, nOther >>

\* a > b on unsigned long.  A value of 2^31 or more is held as the value
\* minus 2^32 (2^32 - k as -k), so that sums and differences that pass
\* 2^32 are the plain ones; a value held as a negative number is the
\* greater of two with different signs.
ULongGreater(a, b) == IF (a < 0) = (b < 0) THEN a > b ELSE a < 0

\* one period of timer1 passes and timerInterrupt runs at micros() = now'
Tick ==
    /\ Attached
    /\ now < hist.start + MaxTicks * TimerPeriod
    /\ now' = now + TimerPeriod
    /\ IF heatControlMode = "IDLE" \/ ~ULongGreater(now', heatControlTime)
       THEN UNCHANGED << gate, heatControlMode, heatControlTime, status, pub >>
       ELSE IF heatControlMode = "DOWN"
       THEN /\ gate' = "LOW"
            /\ heatControlMode' = "IDLE"
            /\ UNCHANGED << heatControlTime, status, pub >>
       ELSE /\ gate' = "HIGH"
            /\ status' = TimerStatusWrite(status, calcPowerRateFeedbacked)
            /\ heatControlMode' = "DOWN"
            /\ heatControlTime' =
                   now' + calcHeatPowerDownDuration(calcPowerRateFeedbacked)
            /\ pub' = IF pc = "fmt"
                      THEN [pub EXCEPT !.snaps = @ \cup { status' }]
                      ELSE pub
    /\ UNCHANGED << commands, controlVars, lastTime, zeroCrossInterval,
                    samplerVars, sequencerVars, line, rx, pc, displayVars,
                    nOther, hist >>

-----------------------------------------------------------------------------
(* The peer *)

\* the foreground reads the port in parseBT and in waitBTResponse; a line
\* sent at any other moment is seen at the next of these, so the model lets
\* the peer send there
ReadPoint == pc \in { "parse", "wait", "rwait" }

\* the peer sends a command frame, well-formed or not
PeerFrame ==
    /\ ReadPoint
    /\ LinesIn(rx) < MaxRxLines
    /\ nOther < MaxFrames
    /\ \E f \in { AppendFrame } \cup OtherFrames : rx' = rx \o Line(f)
    /\ nOther' = nOther + 1
    /\ UNCHANGED << status, commands, controlVars, isrVars, voltages, averages,
                    voltageIndex, averageIndex, nSamples,
                    sequencerVars, line, pc, displayVars, pub, hist >>

\* the peer uploads the next command of a program, one write at a time:
\* the next one follows when the port has been read
PeerAppend ==
    /\ ReadPoint
    /\ rx = << >>
    /\ rx' = rx \o Line(AppendFrame)
    /\ UNCHANGED << status, commands, controlVars, isrVars, samplerVars,
                    sequencerVars, line, pc, displayVars, pub, nOther, hist >>

\* the peer sends a frame of another kind once the upload has reached the
\* last slot (status.cmdnum is published to it)
PeerProbe ==
    /\ ReadPoint
    /\ status.cmdnum >= COMMAND_DATA_MAX - 1
    /\ LinesIn(rx) < MaxRxLines
    /\ nOther < MaxProbe
    /\ \E f \in ProbeFrames : rx' = rx \o Line(f)
    /\ nOther' = nOther + 1
    /\ UNCHANGED << status, commands, controlVars, isrVars, voltages, averages,
                    voltageIndex, averageIndex, nSamples,
                    sequencerVars, line, pc, displayVars, pub, hist >>

\* the peer sets a target temperature
PeerTarget ==
    /\ ReadPoint
    /\ LinesIn(rx) < MaxRxLines
    /\ nOther < MaxFrames
    /\ rx' = rx \o Line(Frame(TargetRecord(0)))
    /\ nOther' = nOther + 1
    /\ UNCHANGED << status, commands, controlVars, isrVars, voltages, averages,
                    voltageIndex, averageIndex, nSamples,
                    sequencerVars, line, pc, displayVars, pub, hist >>

\* the peer appends a hold to an empty program
PeerHold ==
    /\ ReadPoint
    /\ rx = << >>
    /\ nOther < MaxHolds
    /\ \E m \in HoldMinutes : rx' = rx \o Line(Frame(KeepRecord(128, m)))
    /\ nOther' = nOther + 1
    /\ UNCHANGED << status, commands, controlVars, isrVars, voltages, averages,
                    voltageIndex, averageIndex, nSamples,
                    sequencerVars, line, pc, displayVars, pub, hist >>

\* the peer starts a new program once the status shows none (cmdnum 0)
PeerRestart ==
    /\ ReadPoint
    /\ rx = << >>
    /\ status.cmdnum = 0
    /\ nOther < MaxProbe
    /\ rx' = rx \o Line(AppendFrame)
    /\ nOther' = nOther + 1
    /\ UNCHANGED << status, commands, controlVars, isrVars, voltages, averages,
                    voltageIndex, averageIndex, nSamples,
                    sequencerVars, line, pc, displayVars, pub, hist >>

\* lines the module may put on the port during a wait: the three replies,
\* a reply ended "\r\n", an unknown line, lines of 8 and 9 characters that
\* begin with a reply, and lines of 11 characters that end with one
WaitLines ==
    { AOK, ERR, CMD,
      CMD \o << CR >>,
      << "E", "N", "D" >>,
      CMD \o << "1", "2", "3", "4", "5" >>,
      CMD \o << "1", "2", "3", "4", "5", "6" >>,
      << "1", "2", "3", "4", "5", "6", "7", "8" >> \o CMD,
      << "1", "2", "3", "4", "5", "6", "7", "8" >> \o AOK }

\* the module puts a line on the port while rebootBT waits
PeerAnswer ==
    /\ pc = "rwait"
    /\ LinesIn(rx) < MaxWaitLines
    /\ \E l \in WaitLines : rx' = rx \o Line(l)
    /\ UNCHANGED << status, commands, controlVars, isrVars, samplerVars,
                    sequencerVars, line, pc, displayVars, pub, nOther, hist >>

\* n characters that are no part of a frame
Filler(n) == [i \in 1..n |-> "x"]

\* lines about as long as the line buffer: an append frame followed by
\* filler up to 63, 64 and 65 characters, and one with a '\r' in the frame
LongLines ==
    { AppendFrame \o Filler(LineMax - 1 - Len(AppendFrame)),
      AppendFrame \o Filler(LineMax - Len(AppendFrame)),
      AppendFrame \o Filler(LineMax + 1 - Len(AppendFrame)),
      Take(AppendFrame, 8) \o << CR >> \o Drop(AppendFrame, 8) }

\* the peer sends a long line
PeerLong ==
    /\ ReadPoint
    /\ rx = << >>
    /\ nOther < MaxFrames
    /\ \E l \in LongLines : rx' = rx \o Line(l)
    /\ nOther' = nOther + 1
    /\ UNCHANGED << status, commands, controlVars, isrVars, voltages, averages,
                    voltageIndex, averageIndex, nSamples,
                    sequencerVars, line, pc, displayVars, pub, hist >>

\* the module answers a line the firmware has written
PeerReply ==
    /\ pc \in { "wait", "rwait" }
    /\ LinesIn(rx) < MaxRxLines
    /\ \E r \in Replies : rx' = rx \o Line(r)
    /\ UNCHANGED << status, commands, controlVars, isrVars, samplerVars,
                    sequencerVars, line, pc, displayVars, pub, nOther, hist >>

-----------------------------------------------------------------------------
(* Specifications *)

\* the foreground between two readings of the thermistor
Foreground ==
    \/ RunError \/ MeasureNotDue \/ ParseBT \/ ProcessCommand
    \/ DisplayNotDue \/ DisplayDue
    \/ Send \/ Wait \/ RebootSend \/ RebootWait \/ Idle

\* the firmware and a peer that sends a few frames of any kind; the heater
\* supply is off (no zero-cross edge, no interrupt during sprintf)
Next == Foreground \/ Format \/ PeerFrame \/ PeerReply

Spec == Init /\ [][Next]_vars

\* the firmware and a peer that uploads a program of any length
NextFill ==
    \/ Foreground \/ ProcessCommandOutside \/ Format
    \/ PeerAppend \/ PeerProbe \/ PeerReply

SpecFill == Init /\ [][NextFill]_vars

\* the firmware with the heater supply on: readings are taken, both
\* interrupts occur at any point of the foreground
NextIsr ==
    \/ Foreground \/ MeasureTemperature \/ FormatByte
    \/ PeerTarget \/ PeerReply
    \/ ZeroCrossInterrupt \/ TimerInterrupt

SpecIsr == Init /\ [][NextIsr]_vars

\* the firmware running a hold the peer has uploaded, between two status
\* publications (display() touches neither the sequencer nor the program;
\* the time it takes is part of the delta processCommand sees)
NextHold ==
    \/ RebootSend \/ RebootWait \/ Idle
    \/ RunError \/ MeasureNotDue \/ ParseBT \/ ProcessCommand \/ DisplayNotDue
    \/ PeerHold \/ PeerReply

SpecHold == Init /\ [][NextHold]_vars

\* the gain, the setpoint, the reading and the integral the controller
\* works from while the two interrupts are followed: 50 and 20 degrees, and
\* sums e + integral that put Kp*(e + integral) below 0, on every second
\* eighth up to 1, and above 1
GateInputs ==
    { [Kp |-> k, target |-> 12800, current |-> c, integral |-> i] :
        k \in { 1000, -1000 }, c \in { 12800, 5120 },
        i \in { -32, 0, 64, 192, 256, 320 } }

\* setup() has ended with the wireless module answering and loop() is about
\* to call run(); the controller holds one of GateInputs
InitGate ==
    /\ status = [code |-> STANDBY, cmdid |-> 0, cmdnum |-> 0, power |-> 0,
                 temperature |-> 0, remainTime |-> 0]
    /\ commands = [i \in 0..(COMMAND_DATA_MAX - 1) |-> NopRecord]
    /\ \E in \in GateInputs :
         /\ Kp = in.Kp
         /\ targetTemperature = in.target
         /\ currentTemperature = in.current
         /\ temperatureErrorIntegral = in.integral
    /\ Ti = 10
    /\ phaseDelayUs = 1200
    /\ heatControlMode = "IDLE"
    /\ gate = "LOW"
    /\ voltages = [i \in 1..VoltageHistories |-> 0]
    /\ averages = [i \in 1..AverageHistories |-> 0]
    /\ voltageIndex = 0
    /\ averageIndex = 0
    /\ previousCommand = CMD_NOP
    /\ operationTime = 0
    /\ line = << >>
    /\ rx = << >>
    /\ pc = "run"
    /\ caller = "display"
    /\ try = 0
    /\ strbuf = [k \in 0..7 |-> 0]
    /\ unread = {}
    /\ pub = NoPub
    /\ nSamples = 0
    /\ nOther = 0
    /\ now = StartMicros
    /\ lastTime = 0
    /\ zeroCrossInterval = 0
    /\ heatControlTime = 0
    /\ hist = NoHist

\* the two interrupts on the clock, during one call of run() that changes
\* none of the controller's inputs
NextGate == ZeroCrossEdge \/ Tick

SpecGate == InitGate /\ [][NextGate]_vars

\* micros() at an edge shortly before the counter passes 2^32 (held as the
\* value minus 2^32): the deadline of UP, or the one of DOWN, falls after
\* the wrap or within one period of the timer before it
WrapStarts == { -2050, -5050, -8950 }

\* the program has run for 71 minutes and zeroCrossInterrupt has just
\* accepted an edge, 10000 us after the one before, with the gate LOW; the
\* controller holds one of GateInputs
InitWrap ==
    /\ status = [code |-> STANDBY, cmdid |-> 0, cmdnum |-> 0, power |-> 0,
                 temperature |-> 0, remainTime |-> 0]
    /\ commands = [i \in 0..(COMMAND_DATA_MAX - 1) |-> NopRecord]
    /\ \E in \in GateInputs :
         /\ Kp = in.Kp
         /\ targetTemperature = in.target
         /\ currentTemperature = in.current
         /\ temperatureErrorIntegral = in.integral
    /\ Ti = 10
    /\ phaseDelayUs = 1200
    /\ heatControlMode = "UP"
    /\ gate = "LOW"
    /\ voltages = [i \in 1..VoltageHistories |-> 0]
    /\ averages = [i \in 1..AverageHistories |-> 0]
    /\ voltageIndex = 0
    /\ averageIndex = 0
    /\ previousCommand = CMD_NOP
    /\ operationTime = 0
    /\ line = << >>
    /\ rx = << >>
    /\ pc = "run"
    /\ caller = "display"
    /\ try = 0
    /\ strbuf = [k \in 0..7 |-> 0]
    /\ unread = {}
    /\ pub = NoPub
    /\ nSamples = 0
    /\ nOther = 0
    /\ \E start \in WrapStarts :
         /\ now = start
         /\ lastTime = start
         /\ heatControlTime = start + (10000 \div 2) - 1200
         /\ hist = [NoHist EXCEPT !.edge = start, !.start = start]
    /\ zeroCrossInterval = 10000

SpecWrap == InitWrap /\ [][NextGate]_vars

\* the firmware and a peer that sends long lines, between two status
\* publications
NextLine ==
    \/ RebootSend \/ RebootWait \/ Idle
    \/ RunError \/ MeasureNotDue \/ ParseBT \/ ProcessCommand \/ DisplayNotDue
    \/ PeerLong \/ PeerReply

SpecLine == Init /\ [][NextLine]_vars

\* rebootBT in setup() with a module that sends lines of any kind
NextWait == RebootSend \/ RebootWait \/ Idle \/ PeerAnswer

SpecWait == Init /\ [][NextWait]_vars

\* the peer has uploaded one of Programs, the thermistor has been at
\* reading 150 for ten medians (31.9 degrees), and loop() is about to call
\* run()
InitSeq ==
    /\ \E prog \in Programs :
         /\ commands = [i \in 0..(COMMAND_DATA_MAX - 1) |->
                           IF i < Len(prog) THEN prog[i + 1] ELSE NopRecord]
         /\ status = [code |-> STANDBY, cmdid |-> 0, cmdnum |-> Len(prog),
                      power |-> 0, temperature |-> TempOf(150),
                      remainTime |-> 0]
    /\ Kp = 1000
    /\ Ti = 10
    /\ phaseDelayUs = 1200
    /\ currentTemperature = TempOf(150)
    /\ targetTemperature = 0
    /\ temperatureErrorIntegral = 0
    /\ heatControlMode = "IDLE"
    /\ gate = "LOW"
    /\ voltages = [i \in 1..VoltageHistories |-> 150]
    /\ averages = [i \in 1..AverageHistories |-> 150]
    /\ voltageIndex = 0
    /\ averageIndex = 0
    /\ previousCommand = CMD_NOP
    /\ operationTime = 0
    /\ line = << >>
    /\ rx = << >>
    /\ pc = "run"
    /\ caller = "display"
    /\ try = 0
    /\ strbuf = [k \in 0..7 |-> 0]
    /\ unread = {}
    /\ pub = NoPub
    /\ nSamples = 0
    /\ nOther = 0
    /\ now = 0
    /\ lastTime = 0
    /\ zeroCrossInterval = 0
    /\ heatControlTime = 0
    /\ hist = NoHist

\* the firmware running an uploaded program between two status
\* publications, with readings taken
NextSeq ==
    \/ MeasureNotDue \/ MeasureDwell \/ ParseBT \/ ProcessCommand
    \/ DisplayNotDue \/ Idle \/ PeerRestart

SpecSeq == InitSeq /\ [][NextSeq]_vars

-----------------------------------------------------------------------------
(* Properties *)

\* the bytes a step of the foreground has read from the port
Consumed == SubSeq(rx, 1, Len(rx) - Len(rx'))

\* a step of parseBT that reads exactly the line `l` into an empty buffer
ParsesLine(l) ==
    /\ pc = "parse"
    /\ pc' # "parse"
    /\ line = << >>
    /\ Len(rx') <= Len(rx)
    /\ Consumed = Line(l)

\* the slot the specification resolves for record W
SlotOf(W) ==
    CASE IndexByteOf(W) < 128 -> IndexByteOf(W)
      [] IndexByteOf(W) = 128 -> status.cmdnum
      [] IndexByteOf(W) = 129 -> status.cmdid

\* the records of the frames the peer sends whose index byte is one of the
\* three addressing forms
AddressedRecords ==
    { W \in OtherRecords \cup { KpRecord(128) } : IndexByteOf(W) <= 129 }

\* C1: once status.code is negative no step changes it.
C1_LatchedCodeNeverChanges ==
    [][status.code < 0 => status'.code = status.code]_vars

\* rebootBT has failed three times (setCode(BTDEVICE_ERROR) was called)
\* while another error was latched, and that error is still the code
C1_Witness ==
    /\ pub.rdone /\ ~pub.rcmd
    /\ pub.rcode = INVALID_ARGUMENT
    /\ status.code = INVALID_ARGUMENT

\* C2: whenever processCommand is about to read commands[status.cmdid],
\* status.cmdid is within 0..31.
C2_CursorWithinArray ==
    pc = "process" => status.cmdid \in 0..(COMMAND_DATA_MAX - 1)

\* C3: a well-formed frame with one of the three addressing forms whose slot
\* is within the array is decoded to the record it encodes, which is stored
\* in that slot and in no other; cmdnum grows by 1 for an append and is
\* unchanged otherwise.
C3_AcceptedFrameStored ==
    [][\A W \in AddressedRecords :
          (ParsesLine(Frame(W)) /\ SlotOf(W) \in 0..(COMMAND_DATA_MAX - 1))
          => /\ commands' = [commands EXCEPT ![SlotOf(W)] = W]
             /\ status'.cmdnum = IF IndexByteOf(W) = 128
                                 THEN status.cmdnum + 1 ELSE status.cmdnum]_vars

\* an appended record in slot 0 with cmdnum 1, and an absolutely addressed
\* record in slot 31
C3_Witness ==
    /\ pc = "process"
    /\ commands[0] = KpRecord(128)
    /\ commands[31] = KpRecord(31)
    /\ status.cmdnum = 1

\* C4: a well-formed frame whose resolved slot is 32 or more latches
\* COMMAND_OVERFLOW when no error is latched.
C4_OverflowLatched ==
    [][\A W \in { KpRecord(128), KpRecord(129), KpRecord(32), KpRecord(127) } :
          (ParsesLine(Frame(W)) /\ SlotOf(W) >= COMMAND_DATA_MAX /\ status.code >= 0)
          => status'.code = COMMAND_OVERFLOW]_vars

\* the 33rd append has latched COMMAND_OVERFLOW
C4_Witness ==
    /\ status.code = COMMAND_OVERFLOW
    /\ status.cmdnum = COMMAND_DATA_MAX + 1
    /\ nOther = 0

\* C5: status.cmdnum never exceeds 32.
C5_CmdnumWithinCapacity == status.cmdnum <= COMMAND_DATA_MAX

\* C6: a line that begins 'WV,001B,' whose payload is not 16 hexadecimal
\* characters and a '.' latches INVALID_ARGUMENT and stores nothing.
C6_MalformedRejected ==
    [][\A f \in MalformedFrames :
          (ParsesLine(f) /\ status.code >= 0)
          => /\ status'.code = INVALID_ARGUMENT
             /\ commands' = commands]_vars

\* C7: a frame that parseBT rejects with INVALID_ARGUMENT or
\* COMMAND_OVERFLOW leaves the program array unchanged.
C7_RejectedFrameStoresNothing ==
    [][\A f \in { AppendFrame } \cup OtherFrames :
          (ParsesLine(f) /\ status.code >= 0
             /\ status'.code \in { INVALID_ARGUMENT, COMMAND_OVERFLOW })
          => commands' = commands]_vars

\* a frame was stored in slot 0, then a frame was rejected for overflow
C7_Witness ==
    /\ pc = "process"
    /\ status.code = COMMAND_OVERFLOW
    /\ commands[0] = KpRecord(128)
    /\ \A i \in 1..(COMMAND_DATA_MAX - 1) : commands[i] = NopRecord

\* a value read from 2 bytes as a short
Short(x) == ((x + 32768) % 65536) - 32768

\* the status record a peer reads from the 8 bytes of a status frame
DecodeStatus(b) ==
    [code |-> SChar(b[1]), cmdid |-> SChar(b[2]), cmdnum |-> SChar(b[3]),
     power |-> SChar(b[4]), temperature |-> Short(b[5] + 256 * b[6]),
     remainTime |-> b[7] + 256 * b[8]]

\* C8: every frame written is 'SHW,001D,', 16 hexadecimal characters and
\* '\n', and decodes to the status record as it stood at one instant of the
\* formatting.
C8_FrameIsOneSnapshot ==
    \A f \in pub.frames :
       /\ Len(f) = Len(StatusPrefix) + 17
       /\ StartsWith(f, StatusPrefix)
       /\ f[Len(f)] = LF
       /\ DecodeStatus(DecodeCommand(Drop(f, Len(StatusPrefix)))) \in pub.snaps

\* a frame was written whose bytes were read while an interrupt changed
\* status.power
C8_Witness ==
    /\ pub.frames # {}
    /\ Cardinality(pub.snaps) >= 2

\* C9: a publication writes the same frame at most 3 times, stops at the
\* first AOK, and calls rebootBT exactly when no attempt was answered AOK.
C9_RetryThenReboot ==
    /\ pub.sent <= 3
    /\ Cardinality(pub.frames) <= 1
    /\ pub.aok => (pub.phase = "done" /\ pc \notin { "send", "wait" })
    /\ pub.phase = "done" => (pub.reboot <=> ~pub.aok)
    /\ pub.reboot => (pub.sent = 3 /\ pub.phase = "done")
    /\ pub.rsent > 0 /\ caller = "display" => pub.reboot

\* three attempts failed and rebootBT is running
C9_Witness ==
    /\ pub.reboot
    /\ pub.sent = 3
    /\ pc = "rwait"

\* C10 as stated: when all three attempts of rebootBT have failed the code
\* is BTDEVICE_ERROR.
C10_FailureAlwaysLatchesBtError ==
    pub.rdone /\ ~pub.rcmd => status.code = BTDEVICE_ERROR

\* C10: rebootBT writes 'R,1' at most 3 times, returns at the first CMD with
\* the code unchanged, and changes the code exactly when the third attempt
\* has failed: to BTDEVICE_ERROR when no error was latched, and not at all
\* when one was.
C10_RebootLatchesAfterThree ==
    /\ pub.rsent <= 3
    /\ pub.rcmd => pub.rdone
    /\ pc \in { "rsend", "rwait" } => status.code = pub.rcode
    /\ pub.rdone /\ pub.rcmd => status.code = pub.rcode
    /\ pub.rdone /\ ~pub.rcmd =>
          /\ pub.rsent = 3
          /\ status.code = IF pub.rcode >= 0 THEN BTDEVICE_ERROR ELSE pub.rcode

\* rebootBT has returned at its second attempt and the code is still 0
C10_Witness ==
    /\ pub.rdone /\ pub.rcmd
    /\ pub.rsent = 2
    /\ status.code = STANDBY

\* C11: a pass of run() entered with status.code < 0 sets the current
\* temperature, the target temperature and the error integral to 0, runs
\* neither the sampler nor parseBT nor processCommand (the cursors, the
\* program array, the sampler's and the sequencer's statics and the unread
\* bytes are as before) and goes on to display(); until the pass ends the
\* cursors and the array stay unchanged.
C11_ErrorPassFreezesControl ==
    [][/\ (pc = "run" /\ status.code < 0 /\ pc' # pc) =>
            /\ currentTemperature' = 0
            /\ targetTemperature' = 0
            /\ temperatureErrorIntegral' = 0
            /\ pc' = "display"
            /\ UNCHANGED << status, commands, samplerVars, sequencerVars, line, rx >>
       /\ hist.frozen =>
            /\ pc' \notin { "parse", "process" }
            /\ status'.cmdid = status.cmdid
            /\ status'.cmdnum = status.cmdnum
            /\ commands' = commands
            /\ targetTemperature' = 0]_vars

\* a target of 8 degrees was being held when an error was latched: the pass
\* after it has zeroed the target and its status frame has been written
C11_Witness ==
    /\ hist.frozen
    /\ pc = "wait"
    /\ pub.sent >= 1
    /\ commands[0] = TargetRecord(0)
    /\ previousCommand = CMD_TARGET_TEMPERATURE
    /\ targetTemperature = 0

\* C12: once a pass of run() entered with an error latched has zeroed the
\* setpoints, no interrupt takes the gate pin from LOW to HIGH.
C12_NoGateDriveWhileFaulted ==
    [][hist.frozen => ~(gate = "LOW" /\ gate' = "HIGH")]_vars

\* the length in seconds of the hold in slot i
HoldSeconds(i) == (Param(commands[i], 0) + 256 * Param(commands[i], 1)) * 60

\* the remaining time r as the specification encodes it: whole seconds
\* below 3600 s, else whole minutes (rounded up) in the low 15 bits with
\* bit 15 set
EncodedRemain(r) ==
    IF r < 3600 THEN r ELSE 32768 + (((r + 59) \div 60) % 32768)

\* a call of processCommand with a hold in the slot at the cursor
RunsHold ==
    /\ pc = "process"
    /\ pc' = "display"
    /\ status.cmdid \in DOMAIN commands
    /\ CmdOf(commands[status.cmdid]) = CMD_KEEP

\* processCommand has run the hold in the slot at the cursor
HoldRunning ==
    /\ status.cmdid \in DOMAIN commands
    /\ CmdOf(commands[status.cmdid]) = CMD_KEEP
    /\ previousCommand = CMD_KEEP

\* C13: every call of processCommand that runs a hold leaves in
\* status.remainTime the time remaining (the length of the hold less the
\* time spent, not below 0) in whole seconds with bit 15 clear when that is
\* below 3600 s, and in whole minutes with bit 15 set otherwise; the hold
\* ends only with 0 remaining, and no other step changes remainTime.
C13_RemainTimeEncoding ==
    [][/\ RunsHold =>
            LET left == HoldSeconds(status.cmdid) - operationTime'
                remaining == IF left > 0 THEN left ELSE 0
            IN  /\ status'.remainTime = EncodedRemain(remaining)
                /\ status'.remainTime \in 0..65535
                /\ status'.cmdid # status.cmdid => remaining = 0
       /\ status'.remainTime # status.remainTime => RunsHold]_vars

\* a hold of 120 minutes with 3599 s left: the seconds are shown
C13_Witness ==
    /\ HoldRunning
    /\ commands[status.cmdid] = KeepRecord(128, 120)
    /\ operationTime = 3601
    /\ status.remainTime = 3599

\* processCommand is running a hold of 120 minutes stored in slot 0
Hold120 ==
    /\ commands[0] = KeepRecord(128, 120)
    /\ previousCommand = CMD_KEEP
    /\ status.cmdid = 0

\* C14: a hold of 120 minutes shows 120 | 0x8000 at entry, shows 3600 with
\* bit 15 clear when exactly 3600 s have elapsed, and is left by the cursor
\* only once 7200 s have elapsed.
C14_SecondsAt3600Remaining ==
    Hold120 =>
       /\ operationTime < 60 => status.remainTime = 32768 + 120
       /\ operationTime = 3600 => status.remainTime = 3600
       /\ operationTime < 7200

\* zeroCrossInterrupt has run
EdgeStep == lastTime' # lastTime

\* C15: an edge that comes less than 5000 us after the edge before it
\* leaves zeroCrossInterval, heatControlMode, heatControlTime, status.power
\* and the gate as they are, and the interval latched is never below
\* 5000 us.
C15_BounceIgnored ==
    [][/\ (EdgeStep /\ now - lastTime < 5000) =>
            /\ UNCHANGED << zeroCrossInterval, heatControlMode,
                            heatControlTime, gate >>
            /\ status'.power = status.power
       /\ zeroCrossInterval' = 0 \/ zeroCrossInterval' >= 5000]_vars

\* a pulse is armed, and an edge 1900 us after the edge that armed it has
\* been ignored
C15_Witness ==
    /\ hist.edge >= 0
    /\ lastTime = hist.edge + 1900
    /\ heatControlMode = "UP"
    /\ zeroCrossInterval = 10000
    /\ heatControlTime = hist.edge + 3800

\* timerInterrupt drives the gate HIGH
GateHighStep == heatControlMode = "UP" /\ heatControlMode' = "DOWN"

\* C16: with zeroCrossInterval = 10000 us and a rate of 0.5 the gate goes
\* HIGH 5000 us after the edge, give or take one period of the timer.
C16_HalfRateFiresAtHalfCycle ==
    [][(/\ GateHighStep
        /\ zeroCrossInterval = 10000
        /\ calcPowerRateFeedbacked = 128000)
       => /\ now' - hist.edge >= 5000 - TimerPeriod
          /\ now' - hist.edge <= 5000 + TimerPeriod]_vars

\* C17: the rate calcPowerRateFeedbacked returns is within [0, 1], and at
\* most 0.5 when the current temperature is below 40 degrees; status.power
\* is within 0..100.
C17_RateAndPowerBounded ==
    /\ calcPowerRateFeedbacked \in 0..256000
    /\ currentTemperature < 40 * 256 => calcPowerRateFeedbacked <= 128000
    /\ status.power \in 0..100

\* timerInterrupt has published the power for a sum Kp*(e + integral)
\* above 1 at 50 degrees
C17_Witness ==
    /\ Kp * ((targetTemperature - currentTemperature)
             + temperatureErrorIntegral) > 256000
    /\ currentTemperature >= 40 * 256
    /\ heatControlMode = "DOWN"
    /\ status.power = 100

\* C18: the duration calcHeatPowerDownDuration computes for a half cycle of
\* zeroCrossInterval us does not decrease as the rate grows, is 0 at rate 0
\* and is the whole half cycle at rate 1.
C18_OnDurationSpansHalfCycle ==
    [][GateHighStep =>
          LET T == zeroCrossInterval
              rate == calcPowerRateFeedbacked
              dOn == heatControlTime' - now'
          IN  /\ dOn = calcHeatPowerDownDuration(rate)
              /\ \A r1, r2 \in RateGrid :
                    r1 <= r2 => calcHeatPowerDownDuration(r1)
                                   <= calcHeatPowerDownDuration(r2)
              /\ rate = 0 => dOn = 0
              /\ rate = 256000 => dOn = T]_vars

\* C19: with a rate below 1, when timerInterrupt drives the gate HIGH the
\* gate is LOW: the LOW of the pulse before has been driven.
C19_HighAlwaysFollowedByLow ==
    [][(GateHighStep /\ calcPowerRateFeedbacked < 256000)
          => gate = "LOW"]_vars

\* C20: an edge that is accepted while the rate is 0 arms no pulse.
C20_ZeroRateArmsNoPulse ==
    [][(/\ EdgeStep
        /\ ~Bounce(now - lastTime)
        /\ calcPowerRateFeedbacked <= 0)
       => heatControlMode' # "UP"]_vars

\* C21: while the rate is 1 the gate, once HIGH, is never driven LOW, and
\* no pulse is scheduled: heatControlMode stays IDLE.
C21_FullRateHoldsGateHigh ==
    [][calcPowerRateFeedbacked >= 256000 =>
          /\ ~(gate = "HIGH" /\ gate' = "LOW")
          /\ heatControlMode' = "IDLE"]_vars

\* C22: the cursor leaves a hold of m minutes only when the calls of
\* processCommand on that slot have counted m*60 seconds or more, whatever
\* the slot before it was.
C22_HoldRunsFullLength ==
    [][(RunsHold /\ status'.cmdid # status.cmdid)
          => hist'.held >= HoldSeconds(status.cmdid)]_vars

\* a call of processCommand with a TARGET_TEMPERATURE slot at the cursor
RunsTarget ==
    /\ pc = "process"
    /\ pc' = "display"
    /\ status.cmdid \in DOMAIN commands
    /\ CmdOf(commands[status.cmdid]) = CMD_TARGET_TEMPERATURE

\* the target of the slot at the cursor, in 1/256 degree
SlotTarget == Param(commands[status.cmdid], 0) * 256

\* C23: on a TARGET_TEMPERATURE slot the cursor advances only in a call
\* that finds the temperature within 0.5 degree of the target and has more
\* than 120 s of dwell counted; a call that finds the temperature outside
\* the band leaves the dwell at 0, a call that finds the slot new or the
\* target changed starts the dwell again, and every other call adds the
\* time since the call before.
C23_TargetNeedsDwell ==
    [][RunsTarget =>
          /\ targetTemperature' = SlotTarget
          /\ status'.cmdid # status.cmdid =>
                /\ InBand(currentTemperature, SlotTarget)
                /\ operationTime' > 120
                /\ status'.cmdid = status.cmdid + 1
          /\ ~InBand(currentTemperature, SlotTarget) =>
                /\ operationTime' = 0
                /\ status'.cmdid = status.cmdid
          /\ (previousCommand # CMD_TARGET_TEMPERATURE
                 \/ targetTemperature # SlotTarget) =>
                operationTime' \in DeltaSeconds
          /\ operationTime' = 0
                 \/ operationTime' \in DeltaSeconds
                 \/ operationTime' - operationTime \in DeltaSeconds]_vars

\* the dwell on 32 degrees has been counted past 120 s and the cursor has
\* moved on to the hold that follows
C23_Witness ==
    /\ commands[0] = TargetRecordOf(128, 32)
    /\ commands[1] = KeepRecord(128, 1)
    /\ status.cmdid = 1
    /\ previousCommand = CMD_TARGET_TEMPERATURE
    /\ operationTime > 120
    /\ InBand(currentTemperature, targetTemperature)

\* a call of processCommand with the opcode `cmd` in the slot at the cursor
Runs(cmd) ==
    /\ pc = "process"
    /\ pc' = "display"
    /\ status.cmdid \in DOMAIN commands
    /\ CmdOf(commands[status.cmdid]) = cmd

\* C24: a call of processCommand on a FINISH slot leaves cmdid = 0,
\* cmdnum = 0, the opcode of slot 0 NOP, the target temperature 0 and the
\* error integral 0; from then on the calls of processCommand find NOP in
\* slot 0 and change nothing, and only parseBT storing a frame ends that.
C24_FinishResetsProgram ==
    [][/\ Runs(CMD_FINISH) =>
            /\ status'.cmdid = 0
            /\ status'.cmdnum = 0
            /\ CmdOf(commands'[0]) = CMD_NOP
            /\ targetTemperature' = 0
            /\ temperatureErrorIntegral' = 0
       /\ (Runs(CMD_NOP) /\ status.cmdid = 0) =>
            UNCHANGED << status, commands, controlVars, operationTime >>
       /\ (status.cmdid = 0 /\ CmdOf(commands[0]) = CMD_NOP
              /\ status' # status /\ status'.temperature = status.temperature)
            => (pc = "parse" /\ CmdOf(commands'[0]) # CMD_NOP)]_vars

\* FINISH in slot 1 has been executed: both cursors are 0, slot 0 is NOP
\* with the rest of its record kept, and slot 1 still holds FINISH
C24_Witness ==
    /\ previousCommand = CMD_FINISH
    /\ status.cmdid = 0
    /\ status.cmdnum = 0
    /\ commands[0] = [KpRecord(128) EXCEPT ![1] = CMD_NOP]
    /\ commands[1] = FinishRecord(128)
    /\ targetTemperature = 0
    /\ temperatureErrorIntegral = 0

\* C25: a call of processCommand on a SET_PHASE_DELAY slot sets
\* phaseDelayUs to the 16-bit value of the first two parameter bytes and
\* moves the cursor to the next slot.
C25_PhaseDelayAdvances ==
    [][Runs(CMD_SET_PHASE_DELAY) =>
          /\ phaseDelayUs' = U16(Param(commands[status.cmdid], 0),
                                 Param(commands[status.cmdid], 1))
          /\ status'.cmdid = status.cmdid + 1]_vars

\* C26: measureTemperature writes currentTemperature, the error integral
\* or status.temperature only when 50 readings or more have been taken.
C26_UpdateNeedsFiftyReadings ==
    [][(/\ pc = "run"
        /\ pc' = "parse"
        /\ \/ currentTemperature' # currentTemperature
           \/ temperatureErrorIntegral' # temperatureErrorIntegral
           \/ status'.temperature # status.temperature)
       => nSamples' >= VoltageHistories * AverageHistories]_vars

\* the line that ends the bytes a wait has read: the text between the last
\* but one "\n" and the last
RECURSIVE LastLine(_)
LastLine(bytes) ==
    LET body == Take(bytes, Len(bytes) - 1)
        k == IndexOf(body, LF)
    IN  IF bytes = << >> THEN << >>
        ELSE IF k = -1 THEN body
        ELSE LastLine(Drop(bytes, k + 1))

\* C27: waitBTResponse reports CMD only for a line whose first three
\* characters are CMD and that is not longer than 8 characters.
C27_ReplyOnlyForShortLiteralLine ==
    [][(pc = "rwait" /\ pub'.rcmd) =>
          /\ StartsWith(LastLine(Consumed), CMD)
          /\ Len(LastLine(Consumed)) <= ResponseMax]_vars

\* the printable characters of the line parseBT ends in this step
EndedLine == SelectSeq(LastLine(Consumed), isprint)

\* C28: parseBT never writes outside line[64], and a line of more than 64
\* characters is discarded: it changes neither the program nor the status.
C28_LineBufferBounded ==
    [][(pc = "parse" /\ Consumed # << >>) =>
          /\ pc' # "ub"
          /\ Len(EndedLine) > LineMax =>
                (commands' = commands /\ status' = status)]_vars

\* the text t occurs in the bytes s
Contains(s, t) ==
    \E i \in 0..(Len(s) - Len(t)) : SubSeq(s, i + 1, i + Len(t)) = t

\* C29: while no error is latched, the bytes waitBTResponse reads during
\* the wait of the publisher or of rebootBT hold no well-formed command
\* frame: such a frame is left for parseBT.
C29_WaitLeavesCommandFrames ==
    [][(pc \in { "wait", "rwait" } /\ status.code >= 0) =>
          \A W \in AddressedRecords : ~Contains(Consumed, Line(Frame(W)))]_vars

\* C30: a well-formed frame whose index byte is in 0x82..0xFF leaves the
\* program array, cmdid and cmdnum unchanged.
C30_UnknownIndexStoresNothing ==
    [][\A W \in OtherRecords :
          (ParsesLine(Frame(W)) /\ IndexByteOf(W) > 129) =>
             /\ commands' = commands
             /\ status'.cmdid = status.cmdid
             /\ status'.cmdnum = status.cmdnum]_vars

\* C31: a pending UP or DOWN is carried out by the first timer interrupt
\* after its scheduled instant, not before it, also when micros() passes
\* 2^32 between the arming and the deadline: the gate goes HIGH no earlier
\* than zeroCrossInterval/2 - 1200 us after the accepted edge, and LOW no
\* earlier than the on-duration after it went HIGH, and no interrupt leaves
\* a transition pending whose instant has passed.
C31_DeadlineSurvivesWrap ==
    [][/\ GateHighStep =>
             now' - hist.edge > (zeroCrossInterval \div 2) - 1200
       /\ (heatControlMode = "DOWN" /\ heatControlMode' = "IDLE") =>
             now' - heatControlTime > 0
       /\ heatControlMode' # "IDLE" => now' - heatControlTime' <= 0]_vars

\* the codes the program stores in status.code
StoredCodes == { STANDBY, INVALID_ARGUMENT, COMMAND_OVERFLOW, BTDEVICE_ERROR }

\* C32: status.code is always STANDBY, INVALID_ARGUMENT, COMMAND_OVERFLOW
\* or BTDEVICE_ERROR, also while a program runs and when the slot at the
\* cursor holds an opcode the sequencer has no case for.
C32_OnlyFourCodesStored == status.code \in StoredCodes

\* processCommand has run on a slot whose opcode it has no case for, with
\* no error latched
C32_Witness ==
    /\ pc = "display"
    /\ previousCommand > CMD_SET_PHASE_DELAY
    /\ CmdOf(commands[status.cmdid]) > CMD_SET_PHASE_DELAY
    /\ status.code = STANDBY

====
